---- MODULE Spec2Model ----
(***************************************************************************)
(* Model of the Hanover flip-dot display driver (hanover_flipdot_py3.py):  *)
(* the bit-packed raster buffer, the orientation transform, the 5x7 glyph  *)
(* rasterizer and the frame encoder that streams header, ASCII-hex payload *)
(* and checksum footer to the serial transport one byte per write.         *)
(***************************************************************************)
EXTENDS Integers, Sequences, FiniteSets, TLC

(* ------------------------------------------------------------------ *)
(* Bounds of the model                                                  *)
(* ------------------------------------------------------------------ *)

\* column count of the larger display
MaxColumns == 2
\* bytes per column of the larger display (2 -> 16 rows)
MaxRowBytes == 2
\* a transport failure is injected at one of the first MaxFailHead writes
\* of a frame or at one of its last four writes
MaxFailHead == 6
\* column count of the wide display, whose data size exceeds one byte
WideColumns == 257
\* column count of the display texts are drawn on
TextColumns == 8

\* constructor arguments <<address, columns, rows>> of the displays explored:
\* the one-column panel at the default address, and a larger panel whose
\* requested row count is not a multiple of 8
Displays ==
    { <<2, 1, 8>>,
      <<8, MaxColumns, 8 * MaxRowBytes - 4>> }
\* speed factors are kept in hundredths (100 is 1.0, 5 is 0.05)
SpeedInputs == {0, 100}
\* strings handed to write_text, as sequences of characters
Texts == {<<"A">>}
TextCols == {0}
TextRows == {0}

(* ------------------------------------------------------------------ *)
(* State                                                                *)
(* ------------------------------------------------------------------ *)

VARIABLES
    address,            \* self.address: the wire address (logical + 16)
    columns,            \* self.columns
    rows,               \* self.rows, after rounding up
    flip_orientation,   \* self.flip_orientation
    speed_factor,       \* self.speed_factor, in hundredths
    data_size,          \* self.data_size
    byte_per_column,    \* self.byte_per_column
    header,             \* self.header: 5 byte values
    footer,             \* self.footer: ETX and the two checksum characters
    buf,                \* self.buf: one word per column
    buf_id,             \* identity of the list bound to self.buf: the number
                        \* of lists that have been assigned to it so far
    ser,                \* self.ser: "open", "none" or, under the simulator,
                        \* "fake"
    op,                 \* the operation that ran last
    args,               \* its arguments; for send, the number of the write
                        \* call at which the transport raised (0: none); for
                        \* toggle_orientation, the flag the call found
    ret,                \* its return value
    written,            \* bytes the transport received from that call
    calls,              \* number of ser.write calls that call made
    visual,             \* the attributes a VisualHanoverFlipDot wrapping this
                        \* display keeps for itself (wrapped: whether there
                        \* is one)
    sender              \* the thread that runs one send() step by step while
                        \* another thread calls the display: its position and
                        \* its local variables

vars == <<address, columns, rows, flip_orientation, speed_factor, data_size,
          byte_per_column, header, footer, buf, buf_id, ser, op, args, ret,
          written, calls, visual, sender>>

\* what no method of HanoverFlipDot assigns
config == <<address, columns, rows, data_size, byte_per_column, header, ser,
            buf_id, visual, sender>>

(* ------------------------------------------------------------------ *)
(* Integer bit operations, on non-negative operands                     *)
(* ------------------------------------------------------------------ *)

RECURSIVE BitAnd(_, _)
BitAnd(a, b) ==
    IF a = 0 \/ b = 0 THEN 0
    ELSE (IF a % 2 = 1 /\ b % 2 = 1 THEN 1 ELSE 0) + 2 * BitAnd(a \div 2, b \div 2)

RECURSIVE BitOr(_, _)
BitOr(a, b) ==
    IF a = 0 THEN b
    ELSE IF b = 0 THEN a
    ELSE (IF a % 2 = 1 \/ b % 2 = 1 THEN 1 ELSE 0) + 2 * BitOr(a \div 2, b \div 2)

RECURSIVE BitXor(_, _)
BitXor(a, b) ==
    IF a = 0 THEN b
    ELSE IF b = 0 THEN a
    ELSE (IF a % 2 # b % 2 THEN 1 ELSE 0) + 2 * BitXor(a \div 2, b \div 2)

\* a & ~m for non-negative a and m
BitAndNot(a, m) == a - BitAnd(a, m)

\* x & 0xFF for non-negative x
Mask8(x) == x % 256

\* 1 << n
Shl1(n) == 2 ^ n

\* w >> n
Shr(w, n) == w \div (2 ^ n)

(* ------------------------------------------------------------------ *)
(* Frame encoder helpers                                                *)
(* ------------------------------------------------------------------ *)

\* the nibbles above 9 written as 'a'-'f'
nibble_to_ascii_lower(b) == IF b > 9 THEN b + 87 ELSE b + 48

\* one nibble of byte_to_ascii: 'A'-'F' above 9, '0'-'9' otherwise
nibble_to_ascii(b) == IF b > 9 THEN b + 55 ELSE b + 48

byte_to_ascii(byte) == <<nibble_to_ascii(Shr(byte, 4)), nibble_to_ascii(byte % 16)>>

\* a call of the method byte_to_ascii
call_byte_to_ascii(byte) ==
    /\ ret' = byte_to_ascii(byte)
    /\ op' = "byte_to_ascii"
    /\ args' = <<byte>>
    /\ written' = <<>>
    /\ calls' = 0
    /\ UNCHANGED <<config, flip_orientation, speed_factor, footer, buf>>

RECURSIVE SumBytes(_)
SumBytes(s) == IF s = <<>> THEN 0 ELSE Head(s) + SumBytes(Tail(s))

\* the one's complement of the frame sum
checksum_value_ones(hdr, crc) ==
    LET sum_value == Mask8(SumBytes(hdr) + crc + 1)
    IN  BitXor(sum_value, 255)

\* the value calculate_checksum computes from the header and the data crc
checksum_value(hdr, crc) ==
    LET sum_value == Mask8(SumBytes(hdr) + crc + 1)
    IN  BitXor(sum_value, 255) + 1

\* the two checksum characters calculate_checksum stores in the footer
calculate_checksum(hdr, crc) == byte_to_ascii(checksum_value(hdr, crc))

\* the rounding without its test: a multiple of 8 gains a whole byte
RoundRows_always(r) == r + (8 - (r % 8))

\* rows as stored by the constructor: rounded up to a multiple of 8
RoundRows(r) == IF r % 8 # 0 THEN r + (8 - (r % 8)) ELSE r

DataSize(r, c) == (RoundRows(r) * c) \div 8

\* the header with the data size not reduced to one byte
MakeHeader_nomask(addr, c, r) ==
    LET res == byte_to_ascii(DataSize(r, c))
        add == byte_to_ascii(addr + 16)
    IN  <<2, add[1], add[2], res[1], res[2]>>

\* the header the constructor prepares
MakeHeader(addr, c, r) ==
    LET res == byte_to_ascii(Mask8(DataSize(r, c)))
        add == byte_to_ascii(addr + 16)
    IN  <<2, add[1], add[2], res[1], res[2]>>

(* ------------------------------------------------------------------ *)
(* Construction                                                         *)
(* ------------------------------------------------------------------ *)

\* the address stored without the protocol offset
WireAddress_raw(addr) == addr

\* self.address = address + 16
WireAddress(addr) == addr + 16

\* Python's // raises ZeroDivisionError on a zero divisor
FloorDivRaises(divisor) == divisor = 0

\* The constructor.  With a row count that rounds to 0, byte_per_column is 0
\* and the buffer allocation [0] * (data_size // byte_per_column) raises
\* ZeroDivisionError: the attributes assigned before it have their values,
\* buf and ser are never assigned (modelled as the empty buffer, no list and
\* no transport) and the exception is what the constructor call yields.
ConstructAttrs(addr, c, r, flip, speed) ==
    /\ address = WireAddress(addr)
    /\ columns = c
    /\ rows = RoundRows(r)
    /\ flip_orientation = flip
    /\ speed_factor = speed
    /\ data_size = DataSize(r, c)
    /\ byte_per_column = RoundRows(r) \div 8
    /\ header = MakeHeader(addr, c, r)
    /\ footer = <<3, 0, 0>>
    /\ buf = IF FloorDivRaises(RoundRows(r) \div 8) THEN <<>>
             ELSE [i \in 1..(DataSize(r, c) \div (RoundRows(r) \div 8)) |-> 0]
    /\ buf_id = IF FloorDivRaises(RoundRows(r) \div 8) THEN 0 ELSE 1
    /\ op = "init"
    /\ args = <<>>
    /\ ret = IF FloorDivRaises(RoundRows(r) \div 8) THEN "ZeroDivisionError" ELSE "None"
    /\ written = <<>>
    /\ calls = 0

\* no simulator wraps the display
NoVisual ==
    [wrapped |-> FALSE, columns |-> 0, rows |-> 0, flip_orientation |-> FALSE,
     speed_factor |-> 0]

\* no thread is inside send()
NoSender ==
    [pc |-> "idle", idx |-> 0, i |-> 0, col |-> 0, b1 |-> 0, b2 |-> 0,
     crc |-> 0, out |-> <<>>, reads |-> <<>>]

\* a HanoverFlipDot built by its caller: connect() leaves a serial port or None
Construct(addr, c, r, flip, speed, port_ok) ==
    /\ ConstructAttrs(addr, c, r, flip, speed)
    /\ ser = IF port_ok /\ ~FloorDivRaises(RoundRows(r) \div 8) THEN "open" ELSE "none"
    /\ visual = NoVisual
    /\ sender = NoSender

Init ==
    \E d \in Displays, flip \in BOOLEAN, port_ok \in BOOLEAN :
        Construct(d[1], d[2], d[3], flip, 100, port_ok)

(* ------------------------------------------------------------------ *)
(* Raster buffer and coordinate mapper                                  *)
(* ------------------------------------------------------------------ *)

\* the orientation transform shared by set_dot, invert_dot and get_dot
MapCol(col) == IF flip_orientation THEN columns - 1 - col ELSE col

\* the row left untransformed on a flipped display
MapRow_noflip(row) == row

MapRow(row) == IF flip_orientation THEN rows - 1 - row ELSE row

\* the bounds check with row > rows in place of row >= rows
OutOfBounds_offbyone(col, row) == col < 0 \/ col >= columns \/ row < 0 \/ row > rows

\* the bounds check, on transformed coordinates
OutOfBounds(col, row) == col < 0 \/ col >= columns \/ row < 0 \/ row >= rows

\* set_dot with the column left untransformed on a flipped display
set_dot_on_noflip(b, col, row, state) ==
    LET c == col
        r == MapRow(row)
    IN  IF c < 0 \/ c >= columns \/ r < 0 \/ r >= rows
        THEN [ret |-> FALSE, buf |-> b]
        ELSE IF state
             THEN [ret |-> TRUE, buf |-> [b EXCEPT ![c + 1] = BitOr(@, Shl1(r))]]
             ELSE [ret |-> TRUE, buf |-> [b EXCEPT ![c + 1] = BitAndNot(@, Shl1(r))]]

\* set_dot without the upper bound on the row
set_dot_on_norowcheck(b, col, row, state) ==
    LET c == MapCol(col)
        r == MapRow(row)
    IN  IF c < 0 \/ c >= columns \/ r < 0
        THEN [ret |-> FALSE, buf |-> b]
        ELSE IF state
             THEN [ret |-> TRUE, buf |-> [b EXCEPT ![c + 1] = BitOr(@, Shl1(r))]]
             ELSE [ret |-> TRUE, buf |-> [b EXCEPT ![c + 1] = BitAndNot(@, Shl1(r))]]

\* buffer and return value of set_dot on buffer b (column col is b[col + 1])
set_dot_on(b, col, row, state) ==
    LET c == MapCol(col)
        r == MapRow(row)
    IN  IF OutOfBounds(c, r) THEN [ret |-> FALSE, buf |-> b]
        ELSE IF state
             THEN [ret |-> TRUE, buf |-> [b EXCEPT ![c + 1] = BitOr(@, Shl1(r))]]
             ELSE [ret |-> TRUE, buf |-> [b EXCEPT ![c + 1] = BitAndNot(@, Shl1(r))]]

\* invert_dot lighting the dot instead of inverting it
invert_dot_on_or(b, col, row) ==
    LET c == MapCol(col)
        r == MapRow(row)
    IN  IF OutOfBounds(c, r) THEN [ret |-> FALSE, buf |-> b]
        ELSE [ret |-> TRUE, buf |-> [b EXCEPT ![c + 1] = BitOr(@, Shl1(r))]]

invert_dot_on(b, col, row) ==
    LET c == MapCol(col)
        r == MapRow(row)
    IN  IF OutOfBounds(c, r) THEN [ret |-> FALSE, buf |-> b]
        ELSE [ret |-> TRUE, buf |-> [b EXCEPT ![c + 1] = BitXor(@, Shl1(r))]]

get_dot_on(b, col, row) ==
    LET c == MapCol(col)
        r == MapRow(row)
    IN  IF OutOfBounds(c, r) THEN FALSE
        ELSE BitAnd(b[c + 1], Shl1(r)) # 0

erase_all_on(b) == [i \in 1..Len(b) |-> 0]

\* fill_all lighting one byte per column whatever the height
fill_all_on_byte(b) == [i \in 1..Len(b) |-> 255]

fill_all_on(b) == [i \in 1..Len(b) |-> Shl1(rows) - 1]

set_dot(col, row, state) ==
    /\ LET res == set_dot_on(buf, col, row, state)
       IN  buf' = res.buf /\ ret' = res.ret
    /\ op' = "set_dot"
    /\ args' = <<col, row, state>>
    /\ written' = <<>>
    /\ calls' = 0
    /\ UNCHANGED <<config, flip_orientation, speed_factor, footer>>

invert_dot(col, row) ==
    /\ LET res == invert_dot_on(buf, col, row)
       IN  buf' = res.buf /\ ret' = res.ret
    /\ op' = "invert_dot"
    /\ args' = <<col, row>>
    /\ written' = <<>>
    /\ calls' = 0
    /\ UNCHANGED <<config, flip_orientation, speed_factor, footer>>

get_dot(col, row) ==
    /\ ret' = get_dot_on(buf, col, row)
    /\ op' = "get_dot"
    /\ args' = <<col, row>>
    /\ written' = <<>>
    /\ calls' = 0
    /\ UNCHANGED <<config, flip_orientation, speed_factor, footer, buf>>

\* erase_all binding a fresh zero list to self.buf
erase_all_rebind ==
    /\ buf' = [i \in 1..Len(buf) |-> 0]
    /\ buf_id' = buf_id + 1
    /\ ret' = "None"
    /\ op' = "erase_all"
    /\ args' = <<>>
    /\ written' = <<>>
    /\ calls' = 0
    /\ UNCHANGED <<address, columns, rows, data_size, byte_per_column, header,
                   ser, flip_orientation, speed_factor, footer, visual, sender>>

erase_all ==
    /\ buf' = erase_all_on(buf)
    /\ ret' = "None"
    /\ op' = "erase_all"
    /\ args' = <<>>
    /\ written' = <<>>
    /\ calls' = 0
    /\ UNCHANGED <<config, flip_orientation, speed_factor, footer>>

fill_all ==
    /\ buf' = fill_all_on(buf)
    /\ ret' = "None"
    /\ op' = "fill_all"
    /\ args' = <<>>
    /\ written' = <<>>
    /\ calls' = 0
    /\ UNCHANGED <<config, flip_orientation, speed_factor, footer>>

\* toggle_orientation redrawing the content for the new orientation
toggle_orientation_redraw ==
    /\ flip_orientation' = ~flip_orientation
    /\ buf' = [i \in 1..Len(buf) |-> buf[Len(buf) + 1 - i]]
    /\ ret' = "None"
    /\ op' = "toggle_orientation"
    /\ args' = <<flip_orientation>>
    /\ written' = <<>>
    /\ calls' = 0
    /\ UNCHANGED <<config, speed_factor, footer>>

\* toggle_orientation selecting the flipped orientation instead of toggling
toggle_orientation_set ==
    /\ flip_orientation' = TRUE
    /\ ret' = "None"
    /\ op' = "toggle_orientation"
    /\ args' = <<flip_orientation>>
    /\ written' = <<>>
    /\ calls' = 0
    /\ UNCHANGED <<config, speed_factor, footer, buf>>

toggle_orientation ==
    /\ flip_orientation' = ~flip_orientation
    /\ ret' = "None"
    /\ op' = "toggle_orientation"
    /\ args' = <<flip_orientation>>
    /\ written' = <<>>
    /\ calls' = 0
    /\ UNCHANGED <<config, speed_factor, footer, buf>>

\* set_speed_factor rejecting negative factors only
set_speed_factor_strict(f) ==
    /\ speed_factor' = IF f < 0 THEN 5 ELSE f
    /\ ret' = "None"
    /\ op' = "set_speed_factor"
    /\ args' = <<f>>
    /\ written' = <<>>
    /\ calls' = 0
    /\ UNCHANGED <<config, flip_orientation, footer, buf>>

set_speed_factor(f) ==
    /\ speed_factor' = IF f <= 0 THEN 5 ELSE f
    /\ ret' = "None"
    /\ op' = "set_speed_factor"
    /\ args' = <<f>>
    /\ written' = <<>>
    /\ calls' = 0
    /\ UNCHANGED <<config, flip_orientation, footer, buf>>

\* the factor is returned in hundredths, as it is stored
get_speed_factor ==
    /\ ret' = speed_factor
    /\ op' = "get_speed_factor"
    /\ args' = <<>>
    /\ written' = <<>>
    /\ calls' = 0
    /\ UNCHANGED <<config, flip_orientation, speed_factor, footer, buf>>

\* delay * self.speed_factor: with the delay and the factor in hundredths the
\* product is in ten-thousandths (20000 is 2.0, 500 is 0.05)
adjust_delay(delay) ==
    /\ ret' = delay * speed_factor
    /\ op' = "adjust_delay"
    /\ args' = <<delay>>
    /\ written' = <<>>
    /\ calls' = 0
    /\ UNCHANGED <<config, flip_orientation, speed_factor, footer, buf>>

(* ------------------------------------------------------------------ *)
(* Glyph rasterizer                                                     *)
(* ------------------------------------------------------------------ *)

\* the entries of the 5x7 font table for the characters of Texts
font ==
    [ch \in {" ", "1", "A"} |->
        CASE ch = " " -> <<0, 0, 0, 0, 0>>
          [] ch = "1" -> <<0, 66, 127, 64, 0>>
          [] ch = "A" -> <<124, 18, 17, 18, 124>>]

\* for row_idx in range(7): set the dot of every lit bit of one font column.
\* (In the three loops below the buffer of one iteration is computed before
\* the next iteration starts, as in the code: the test of its length, which
\* no iteration changes, orders the evaluation.)
RECURSIVE blit_rows(_, _, _, _, _)
blit_rows(b, pattern, current_col, row, row_idx) ==
    IF row_idx >= 7 THEN b
    ELSE LET nb == IF BitAnd(pattern, Shl1(row_idx)) # 0
                   THEN set_dot_on(b, current_col, row + row_idx, TRUE).buf
                   ELSE b
         IN  IF Len(nb) # Len(b) THEN nb
             ELSE blit_rows(nb, pattern, current_col, row, row_idx + 1)

\* for i, pattern in enumerate(char_pattern): columns at or past the right
\* edge are skipped, current_col advances either way
RECURSIVE blit_char(_, _, _, _, _)
blit_char(b, char_pattern, i, current_col, row) ==
    IF i > Len(char_pattern) THEN b
    ELSE LET nb == IF current_col < columns
                   THEN blit_rows(b, char_pattern[i], current_col, row, 0)
                   ELSE b
         IN  IF Len(nb) # Len(b) THEN nb
             ELSE blit_char(nb, char_pattern, i + 1, current_col + 1, row)

\* the character loop with an unknown character taking no room
RECURSIVE write_chars_skip(_, _, _, _)
write_chars_skip(b, text, current_col, row) ==
    IF text = <<>> THEN b
    ELSE IF Head(text) \in DOMAIN font
         THEN LET nb == blit_char(b, font[Head(text)], 1, current_col, row)
              IN  IF Len(nb) # Len(b) THEN nb
                  ELSE write_chars_skip(nb, Tail(text),
                                        current_col + Len(font[Head(text)]) + 1, row)
         ELSE write_chars_skip(b, Tail(text), current_col, row)

\* for char in text: known characters are drawn and advance 5 + 1 columns,
\* unknown ones advance 6
RECURSIVE write_chars(_, _, _, _)
write_chars(b, text, current_col, row) ==
    IF text = <<>> THEN b
    ELSE IF Head(text) \in DOMAIN font
         THEN LET nb == blit_char(b, font[Head(text)], 1, current_col, row)
              IN  IF Len(nb) # Len(b) THEN nb
                  ELSE write_chars(nb, Tail(text),
                                   current_col + Len(font[Head(text)]) + 1, row)
         ELSE write_chars(b, Tail(text), current_col + 6, row)

\* write_text drawing over the previous content
write_text_on_noerase(b, text, col, row) == write_chars(b, text, col, row)

write_text_on(b, text, col, row) == write_chars(erase_all_on(b), text, col, row)

write_text(text, col, row) ==
    /\ buf' = write_text_on(buf, text, col, row)
    /\ ret' = "None"
    /\ op' = "write_text"
    /\ args' = <<text, col, row>>
    /\ written' = <<>>
    /\ calls' = 0
    /\ UNCHANGED <<config, flip_orientation, speed_factor, footer>>

(* ------------------------------------------------------------------ *)
(* Frame encoder                                                        *)
(* ------------------------------------------------------------------ *)

\* The transport during one send: the bytes it received, the number of
\* write calls made, and whether a write has raised.  The k-th write call
\* raises (k = 0: none does); a raising write delivers nothing and the
\* exception skips every later write of the call.
\* a raising write that has already put its byte on the line
ser_write_delivers(t, byte, k) ==
    IF t.failed THEN t
    ELSE IF t.n + 1 = k
         THEN [out |-> Append(t.out, byte), n |-> t.n + 1, failed |-> TRUE]
         ELSE [out |-> Append(t.out, byte), n |-> t.n + 1, failed |-> FALSE]

\* a raising write that is retried once before the send gives up
ser_write_retry(t, byte, k) ==
    IF t.failed THEN t
    ELSE IF t.n + 1 = k
         THEN [out |-> Append(t.out, byte), n |-> t.n + 2, failed |-> TRUE]
         ELSE [out |-> Append(t.out, byte), n |-> t.n + 1, failed |-> FALSE]

ser_write(t, byte, k) ==
    IF t.failed THEN t
    ELSE IF t.n + 1 = k
         THEN [out |-> t.out, n |-> t.n + 1, failed |-> TRUE]
         ELSE [out |-> Append(t.out, byte), n |-> t.n + 1, failed |-> FALSE]

\* for byte in seq: self.ser.write(bytes([byte]))
RECURSIVE write_each(_, _, _)
write_each(t, bytes, k) ==
    IF bytes = <<>> \/ t.failed THEN t
    ELSE write_each(ser_write(t, Head(bytes), k), Tail(bytes), k)

\* the inner loop emitting the most significant byte of the word first
RECURSIVE send_column_msb(_, _, _, _)
send_column_msb(st, col, i, k) ==
    IF i >= byte_per_column \/ st.t.failed THEN st
    ELSE LET byte_val == Mask8(Shr(col, 8 * (byte_per_column - 1 - i)))
             pair     == byte_to_ascii(byte_val)
         IN  send_column_msb([t   |-> ser_write(ser_write(st.t, pair[1], k), pair[2], k),
                              crc |-> st.crc + pair[1] + pair[2]],
                             col, i + 1, k)

\* the inner loop of send for one column word: for i in range(byte_per_column);
\* st holds the transport t and the accumulated crc
RECURSIVE send_column(_, _, _, _)
send_column(st, col, i, k) ==
    IF i >= byte_per_column \/ st.t.failed THEN st
    ELSE LET byte_val == Mask8(Shr(col, 8 * i))
             pair     == byte_to_ascii(byte_val)
         IN  send_column([t   |-> ser_write(ser_write(st.t, pair[1], k), pair[2], k),
                          crc |-> st.crc + pair[1] + pair[2]],
                         col, i + 1, k)

\* the outer loop of send: for col in self.buf, over positions lo..hi of b in
\* ascending order (the range is halved so that wide buffers evaluate at
\* small depth; the order of the visits is that of the loop)
RECURSIVE send_data(_, _, _, _, _)
send_data(st, b, lo, hi, k) ==
    IF lo > hi \/ st.t.failed THEN st
    ELSE IF lo = hi THEN send_column(st, b[lo], 0, k)
    ELSE LET mid == (lo + hi) \div 2
         IN  send_data(send_data(st, b, lo, mid, k), b, mid + 1, hi, k)

\* the try block with crc starting from the checksum characters of the
\* previous frame
send_run_stale(k) ==
    LET t0 == [out |-> <<>>, n |-> 0, failed |-> FALSE]
        t1 == write_each(t0, header, k)
        d  == send_data([t |-> t1, crc |-> footer[2] + footer[3]], buf, 1, Len(buf), k)
        cs == calculate_checksum(header, d.crc)
        f  == IF d.t.failed THEN footer ELSE <<footer[1], cs[1], cs[2]>>
        t2 == write_each(d.t, f, k)
    IN  [footer |-> f, out |-> t2.out, n |-> t2.n,
         ret |-> IF t2.failed THEN -1 ELSE 0]

\* the try block with the header written after the data
send_run_header_last(k) ==
    LET t0 == [out |-> <<>>, n |-> 0, failed |-> FALSE]
        d  == send_data([t |-> t0, crc |-> 0], buf, 1, Len(buf), k)
        t1 == write_each(d.t, header, k)
        cs == calculate_checksum(header, d.crc)
        f  == IF t1.failed THEN footer ELSE <<footer[1], cs[1], cs[2]>>
        t2 == write_each(t1, f, k)
    IN  [footer |-> f, out |-> t2.out, n |-> t2.n,
         ret |-> IF t2.failed THEN -1 ELSE 0]

\* the outcome of the try block of send when the k-th write raises
send_run(k) ==
    LET t0 == [out |-> <<>>, n |-> 0, failed |-> FALSE]
        t1 == write_each(t0, header, k)
        d  == send_data([t |-> t1, crc |-> 0], buf, 1, Len(buf), k)
        cs == calculate_checksum(header, d.crc)
        f  == IF d.t.failed THEN footer ELSE <<footer[1], cs[1], cs[2]>>
        t2 == write_each(d.t, f, k)
    IN  [footer |-> f, out |-> t2.out, n |-> t2.n,
         ret |-> IF t2.failed THEN -1 ELSE 0]

\* number of write calls of a complete frame
FrameLen == Len(header) + 2 * Len(buf) * byte_per_column + Len(footer)

\* positions at which a write may raise; 0 stands for a transport that works
FailAts == {0} \cup {k \in 1..FrameLen : k <= MaxFailHead \/ k > FrameLen - 4}

\* send without the check for a missing transport
send_unguarded(k) ==
    /\ LET run == send_run(k)
       IN  /\ ret' = run.ret
           /\ written' = run.out
           /\ calls' = run.n
           /\ footer' = run.footer
    /\ op' = "send"
    /\ args' = <<k>>
    /\ UNCHANGED <<config, flip_orientation, speed_factor, buf>>

send(k) ==
    /\ IF ser = "none"
       THEN /\ k = 0
            /\ ret' = -1
            /\ written' = <<>>
            /\ calls' = 0
            /\ footer' = footer
       ELSE LET run == send_run(k)
            IN  /\ ret' = run.ret
                /\ written' = run.out
                /\ calls' = run.n
                /\ footer' = run.footer
    /\ op' = "send"
    /\ args' = <<k>>
    /\ UNCHANGED <<config, flip_orientation, speed_factor, buf>>

(* ------------------------------------------------------------------ *)
(* send() one step at a time, for callers on other threads              *)
(* ------------------------------------------------------------------ *)

\* The thread inside send() is at sender.pc; its locals are sender.col (the
\* loop variable of "for col in self.buf"), sender.i, sender.b1, sender.b2
\* and sender.crc; sender.idx is the position of the list iterator,
\* sender.out the bytes written so far and sender.reads the column words
\* the iterator has delivered.

\* the guard and the header loop
send_begin ==
    /\ sender.pc = "idle"
    /\ ser = "open"
    /\ sender' = [sender EXCEPT !.pc = "column", !.idx = 1, !.crc = 0,
                                !.out = header, !.reads = <<>>]
    /\ UNCHANGED <<address, columns, rows, data_size, byte_per_column, header,
                   ser, buf_id, visual, flip_orientation, speed_factor, footer,
                   buf, op, args, ret, written, calls>>

\* for col in self.buf: the iterator reads the next word of the list
send_read_column ==
    /\ sender.pc = "column"
    /\ sender' = IF sender.idx > Len(buf)
                 THEN [sender EXCEPT !.pc = "checksum"]
                 ELSE [sender EXCEPT !.pc = "byte", !.col = buf[sender.idx],
                                     !.i = 0, !.reads = Append(@, buf[sender.idx])]
    /\ UNCHANGED <<address, columns, rows, data_size, byte_per_column, header,
                   ser, buf_id, visual, flip_orientation, speed_factor, footer,
                   buf, op, args, ret, written, calls>>

\* the byte taken from the buffer again instead of from the loop variable
send_encode_reread ==
    /\ sender.pc = "byte"
    /\ sender' = IF sender.i >= byte_per_column
                 THEN [sender EXCEPT !.pc = "column", !.idx = @ + 1]
                 ELSE LET byte_val == Mask8(Shr(buf[sender.idx], 8 * sender.i))
                          a        == byte_to_ascii(byte_val)
                      IN  [sender EXCEPT !.pc = "write_b1",
                                         !.b1 = a[1], !.b2 = a[2],
                                         !.crc = @ + a[1] + a[2]]
    /\ UNCHANGED <<address, columns, rows, data_size, byte_per_column, header,
                   ser, buf_id, visual, flip_orientation, speed_factor, footer,
                   buf, op, args, ret, written, calls>>

\* for i in range(self.byte_per_column): byte_val, b1, b2 and the two
\* additions to crc
send_encode ==
    /\ sender.pc = "byte"
    /\ sender' = IF sender.i >= byte_per_column
                 THEN [sender EXCEPT !.pc = "column", !.idx = @ + 1]
                 ELSE LET byte_val == Mask8(Shr(sender.col, 8 * sender.i))
                          a        == byte_to_ascii(byte_val)
                      IN  [sender EXCEPT !.pc = "write_b1",
                                         !.b1 = a[1], !.b2 = a[2],
                                         !.crc = @ + a[1] + a[2]]
    /\ UNCHANGED <<address, columns, rows, data_size, byte_per_column, header,
                   ser, buf_id, visual, flip_orientation, speed_factor, footer,
                   buf, op, args, ret, written, calls>>

\* self.ser.write(bytes([b1]))
send_write_b1 ==
    /\ sender.pc = "write_b1"
    /\ sender' = [sender EXCEPT !.pc = "write_b2", !.out = Append(@, sender.b1)]
    /\ UNCHANGED <<address, columns, rows, data_size, byte_per_column, header,
                   ser, buf_id, visual, flip_orientation, speed_factor, footer,
                   buf, op, args, ret, written, calls>>

\* self.ser.write(bytes([b2]))
send_write_b2 ==
    /\ sender.pc = "write_b2"
    /\ sender' = [sender EXCEPT !.pc = "byte", !.i = @ + 1,
                                !.out = Append(@, sender.b2)]
    /\ UNCHANGED <<address, columns, rows, data_size, byte_per_column, header,
                   ser, buf_id, visual, flip_orientation, speed_factor, footer,
                   buf, op, args, ret, written, calls>>

\* calculate_checksum(crc), the footer loop and return 0
send_finish ==
    /\ sender.pc = "checksum"
    /\ LET cs == calculate_checksum(header, sender.crc)
           f  == <<footer[1], cs[1], cs[2]>>
       IN  /\ footer' = f
           /\ sender' = [sender EXCEPT !.pc = "done", !.out = @ \o f]
           /\ written' = sender.out \o f
           /\ calls' = Len(sender.out) + 3
    /\ ret' = 0
    /\ op' = "send"
    /\ args' = <<0>>
    /\ UNCHANGED <<address, columns, rows, data_size, byte_per_column, header,
                   ser, buf_id, visual, flip_orientation, speed_factor, buf>>

(* ------------------------------------------------------------------ *)
(* On-screen simulator (visual_simulator.py)                            *)
(* ------------------------------------------------------------------ *)

\* VisualHanoverFlipDot.__init__: the wrapper keeps the columns and rows it
\* was asked for, builds the real display (the model's display variables),
\* replaces its transport by the FakeSerial and copies the orientation flag
\* and the speed factor; its buf is the real display's list
ConstructVisual(addr, c, r, flip, speed) ==
    /\ ConstructAttrs(addr, c, r, flip, speed)
    /\ ser = "fake"
    /\ visual = [wrapped |-> TRUE, columns |-> c, rows |-> r,
                 flip_orientation |-> flip_orientation,
                 speed_factor |-> speed_factor]
    /\ sender = NoSender

\* a wrapper checking the row against the row count it keeps itself
Visual_set_dot_ownrows(col, row, state) ==
    /\ visual.wrapped
    /\ IF row >= visual.rows
       THEN /\ ret' = FALSE
            /\ op' = "set_dot"
            /\ args' = <<col, row, state>>
            /\ written' = <<>>
            /\ calls' = 0
            /\ UNCHANGED <<config, flip_orientation, speed_factor, footer, buf>>
       ELSE set_dot(col, row, state)

\* the methods that return what the real display's method returns
Visual_set_dot(col, row, state) == visual.wrapped /\ set_dot(col, row, state)

Visual_get_dot(col, row) == visual.wrapped /\ get_dot(col, row)

Visual_invert_dot(col, row) == visual.wrapped /\ invert_dot(col, row)

Visual_erase_all == visual.wrapped /\ erase_all

Visual_fill_all == visual.wrapped /\ fill_all

Visual_write_text(text, col, row) == visual.wrapped /\ write_text(text, col, row)

Visual_get_speed_factor == visual.wrapped /\ get_speed_factor

Visual_adjust_delay(delay) == visual.wrapped /\ adjust_delay(delay)

\* real_display.toggle_orientation(), then the local copy of the flag
Visual_toggle_orientation ==
    /\ visual.wrapped
    /\ flip_orientation' = ~flip_orientation
    /\ visual' = [visual EXCEPT !.flip_orientation = flip_orientation']
    /\ ret' = "None"
    /\ op' = "toggle_orientation"
    /\ args' = <<flip_orientation>>
    /\ written' = <<>>
    /\ calls' = 0
    /\ UNCHANGED <<address, columns, rows, data_size, byte_per_column, header,
                   ser, buf_id, sender, speed_factor, footer, buf>>

\* real_display.set_speed_factor(f), then the local copy of the factor
Visual_set_speed_factor(f) ==
    /\ visual.wrapped
    /\ speed_factor' = IF f <= 0 THEN 5 ELSE f
    /\ visual' = [visual EXCEPT !.speed_factor = speed_factor']
    /\ ret' = "None"
    /\ op' = "set_speed_factor"
    /\ args' = <<f>>
    /\ written' = <<>>
    /\ calls' = 0
    /\ UNCHANGED <<address, columns, rows, data_size, byte_per_column, header,
                   ser, buf_id, sender, flip_orientation, footer, buf>>

\* the wrapper's own send: the window is redrawn from get_dot, nothing is
\* encoded or written, 0 is returned
Visual_send ==
    /\ visual.wrapped
    /\ ret' = 0
    /\ op' = "send"
    /\ args' = <<0>>
    /\ written' = <<>>
    /\ calls' = 0
    /\ UNCHANGED <<config, flip_orientation, speed_factor, footer, buf>>

(* ------------------------------------------------------------------ *)
(* Specification                                                        *)
(* ------------------------------------------------------------------ *)

\* coordinates handed to the dot operations: two opposite corners of the
\* panel and the four ways of leaving it
Points ==
    { <<0, 0>>, <<columns - 1, rows - 1>>,
      <<-1, 0>>, <<0, -1>>, <<columns, rows - 1>>, <<columns - 1, rows>> }

Next ==
    \/ \E p \in Points, state \in BOOLEAN : set_dot(p[1], p[2], state)
    \/ \E p \in Points : invert_dot(p[1], p[2])
    \/ \E p \in Points : get_dot(p[1], p[2])
    \/ erase_all
    \/ fill_all
    \/ toggle_orientation
    \/ \E f \in SpeedInputs : set_speed_factor(f)
    \/ \E text \in Texts, col \in TextCols, row \in TextRows : write_text(text, col, row)
    \/ \E k \in FailAts : send(k)

Spec == Init /\ [][Next]_vars


\* The wide display: every operation with one input each, on the displays of
\* Spec and on a panel of WideColumns columns
WideDisplays == { <<1, WideColumns, 5>> }

InitWide ==
    \/ Init
    \/ \E d \in WideDisplays, flip \in BOOLEAN, port_ok \in BOOLEAN :
          Construct(d[1], d[2], d[3], flip, 100, port_ok)

NextWide ==
    \/ set_dot(0, 0, TRUE)
    \/ invert_dot(columns, 0)
    \/ get_dot(0, 0)
    \/ erase_all
    \/ fill_all
    \/ toggle_orientation
    \/ set_speed_factor(0)
    \/ \E text \in Texts, col \in TextCols, row \in TextRows : write_text(text, col, row)
    \/ \E k \in {0, MaxFailHead + 1} : send(k)

SpecWide == InitWide /\ [][NextWide]_vars


\* The rasterizer: texts with supported and unsupported characters, drawn
\* at origins that clip the glyphs at each edge, over empty, full and
\* previously written buffers
TextDisplays ==
    { <<2, TextColumns, 8>>,
      <<3, TextColumns - 1, 12>> }

TextInputs ==
    { <<"A">>, <<"1", "A">>, <<"~", "A">>, <<"A", "~", "1">> }

\* <<col, row>> origins of the text
TextOrigins == {-6, -2, 0, 3} \X {-1, 0, 3}

TextPoints == { <<0, 0>>, <<2, 4>>, <<columns - 1, 1>>, <<columns, 0>> }

InitText ==
    \E d \in TextDisplays, flip \in BOOLEAN :
        Construct(d[1], d[2], d[3], flip, 100, TRUE)

NextText ==
    \/ \E text \in TextInputs, o \in TextOrigins : write_text(text, o[1], o[2])
    \/ \E p \in TextPoints : get_dot(p[1], p[2])
    \/ fill_all
    \/ toggle_orientation

SpecText == InitText /\ [][NextText]_vars


\* Construction by any caller: the displays of Spec, a request for 0 rows,
\* and the displays the address scanner builds for the addresses of a range
\* its user entered (test_address_fill_clear)
DISPLAY_COLUMNS == 84
DISPLAY_ROWS == 8

ZeroRowDisplays == { <<2, 1, 0>> }

\* addresses of a user-entered range: the last standard address and the one
\* after it
ScanAddresses == {16, 17}

ScanDisplays == { <<a, DISPLAY_COLUMNS, DISPLAY_ROWS>> : a \in ScanAddresses }

CtorDisplays == Displays \cup ZeroRowDisplays \cup ScanDisplays

InitCtor ==
    \/ \E d \in Displays \cup ZeroRowDisplays, port_ok \in BOOLEAN :
          Construct(d[1], d[2], d[3], FALSE, 100, port_ok)
    \/ \E d \in ScanDisplays :
          Construct(d[1], d[2], d[3], FALSE, 100, TRUE)

\* the constructor returned an object on which methods can be called
Constructed == ~(op = "init" /\ ret = "ZeroDivisionError")

NextCtor ==
    \/ Constructed /\ set_dot(0, 0, TRUE)
    \/ Constructed /\ invert_dot(columns, -1)
    \/ Constructed /\ get_dot(-1, rows)
    \/ Constructed /\ erase_all
    \/ Constructed /\ fill_all
    \/ Constructed /\ toggle_orientation
    \/ Constructed /\ set_speed_factor(-100)
    \/ Constructed /\ write_text(<<"~", "A">>, -8, -1)
    \/ \E k \in {0, 1} : Constructed /\ send(k)

SpecCtor == InitCtor /\ [][NextCtor]_vars


\* The speed scale: factors and delays in hundredths
SpeedFactors == {-100, 0, 50, 200}

Delays == {0, 100, 250}

NextSpeed ==
    \/ \E f \in SpeedFactors : set_speed_factor(f)
    \/ get_speed_factor
    \/ \E d \in Delays : adjust_delay(d)
    \/ fill_all

SpecSpeed == Init /\ [][NextSpeed]_vars


\* The dot operations alone, at in-range and out-of-range coordinates
DotOrigins == { <<0, 0>>, <<-2, rows - 3>> }

NextDots ==
    \/ \E p \in Points, state \in BOOLEAN : set_dot(p[1], p[2], state)
    \/ \E p \in Points : invert_dot(p[1], p[2])
    \/ \E p \in Points : get_dot(p[1], p[2])
    \/ erase_all
    \/ fill_all
    \/ toggle_orientation
    \/ \E text \in Texts, o \in DotOrigins : write_text(text, o[1], o[2])

SpecDots == Init /\ [][NextDots]_vars


\* The simulator's wrapper around displays whose row count is and is not
\* rounded up
InitVisual ==
    \E d \in Displays, flip \in BOOLEAN :
        ConstructVisual(d[1], d[2], d[3], flip, 100)

NextVisual ==
    \/ \E p \in Points, state \in BOOLEAN : Visual_set_dot(p[1], p[2], state)
    \/ \E p \in Points : Visual_invert_dot(p[1], p[2])
    \/ \E p \in Points : Visual_get_dot(p[1], p[2])
    \/ Visual_erase_all
    \/ Visual_fill_all
    \/ \E text \in Texts, col \in TextCols, row \in TextRows :
           Visual_write_text(text, col, row)
    \/ Visual_toggle_orientation
    \/ \E f \in SpeedInputs : Visual_set_speed_factor(f)
    \/ Visual_get_speed_factor
    \/ \E delay \in {100} : Visual_adjust_delay(delay)
    \/ Visual_send

SpecVisual == InitVisual /\ [][NextVisual]_vars


\* One thread inside a single send() while another thread changes the
\* buffer between any two of its steps
ThreadDisplays == { <<8, MaxColumns, 8 * MaxRowBytes - 4>> }

InitThreads ==
    \E d \in ThreadDisplays : Construct(d[1], d[2], d[3], FALSE, 100, TRUE)

NextThreads ==
    \/ send_begin
    \/ send_read_column
    \/ send_encode
    \/ send_write_b1
    \/ send_write_b2
    \/ send_finish
    \/ set_dot(0, 0, TRUE)
    \/ invert_dot(columns - 1, rows - 1)
    \/ fill_all
    \/ erase_all

SpecThreads == InitThreads /\ [][NextThreads]_vars


\* The speed scale of displays built with a speed_factor argument
CtorSpeeds == {-100, 0, 100, 200}

InitSpeedCtor ==
    \E d \in Displays, speed \in CtorSpeeds, port_ok \in BOOLEAN :
        Construct(d[1], d[2], d[3], FALSE, speed, port_ok)

SpecSpeedCtor == InitSpeedCtor /\ [][NextSpeed]_vars


\* The byte encoder on every byte value
Bytes == 0..255

NextBytes == \E byte \in Bytes : call_byte_to_ascii(byte)

SpecBytes == Init /\ [][NextBytes]_vars

(* ------------------------------------------------------------------ *)
(* Vocabulary of the properties                                         *)
(* ------------------------------------------------------------------ *)

\* (col, row) addresses a dot of the panel
InRange(col, row) == col >= 0 /\ col < columns /\ row >= 0 /\ row < rows

\* ASCII codes of the uppercase hexadecimal digits, digit n at position n + 1
HexDigits == <<48, 49, 50, 51, 52, 53, 54, 55, 56, 57, 65, 66, 67, 68, 69, 70>>

IsHexDigit(x) == \E n \in 1..16 : HexDigits[n] = x

\* number of payload bytes of a frame
PayloadLen == 2 * columns * (rows \div 8)

\* the payload of the wire format for the current buffer: byte i of column c,
\* least significant byte first, high nibble before low nibble
ExpectedPayload ==
    [j \in 1..PayloadLen |->
        LET idx  == (j - 1) \div 2
            c    == idx \div (rows \div 8)
            i    == idx % (rows \div 8)
            byte == (buf[c + 1] \div (2 ^ (8 * i))) % 256
        IN  IF j % 2 = 1 THEN HexDigits[(byte \div 16) + 1]
                         ELSE HexDigits[(byte % 16) + 1]]

\* the frame send() emits for the current header and buffer
ExpectedFrame ==
    LET cs == calculate_checksum(header, SumBytes(ExpectedPayload))
    IN  header \o ExpectedPayload \o <<3, cs[1], cs[2]>>

IsPrefix(s, t) == Len(s) <= Len(t) /\ s = SubSeq(t, 1, Len(s))

\* s[lo] + ... + s[hi]
RECURSIVE SumRange(_, _, _)
SumRange(s, lo, hi) ==
    IF lo > hi THEN 0
    ELSE IF lo = hi THEN s[lo]
    ELSE LET mid == (lo + hi) \div 2
         IN  SumRange(s, lo, mid) + SumRange(s, mid + 1, hi)

\* the value of a hexadecimal digit character
Unhex(ch) == IF ch >= 65 THEN ch - 55 ELSE ch - 48

(* ------------------------------------------------------------------ *)
(* Properties                                                           *)
(* ------------------------------------------------------------------ *)

\* C1: an in-range set_dot(col,row,state) returns True, and the get_dot(col,row)
\* that follows it immediately returns state, under both orientations and from
\* any buffer content.
C1_SetThenGet ==
    [][ (op = "set_dot" /\ InRange(args[1], args[2]))
          => /\ ret = TRUE
             /\ (op' = "get_dot" /\ args' = <<args[1], args[2]>>) => ret' = args[3]
      ]_vars

\* a flipped display on which an in-range dot was just lit over an unlit buffer
C1_Witness ==
    /\ op = "set_dot" /\ InRange(args[1], args[2]) /\ args[3] = TRUE
    /\ flip_orientation /\ ret = TRUE
    /\ \E c \in 1..Len(buf) : buf[c] # 0

\* C2: for out-of-range coordinates set_dot and invert_dot return False and
\* leave every buffer word unchanged, and get_dot returns False, under both
\* orientations.
C2_OutOfRange ==
    [][ /\ (op' \in {"set_dot", "invert_dot"} /\ ~InRange(args'[1], args'[2]))
            => (ret' = FALSE /\ buf' = buf)
        /\ (op' = "get_dot" /\ ~InRange(args'[1], args'[2]))
            => ret' = FALSE
      ]_vars

\* an out-of-range invert_dot was refused on a flipped display holding lit dots
C2_Witness ==
    /\ op = "invert_dot" /\ ~InRange(args[1], args[2])
    /\ flip_orientation /\ ret = FALSE
    /\ \E c \in 1..Len(buf) : buf[c] # 0

\* C3: a send() that returns 0 made one write per byte, in the order header,
\* payload, ETX, two checksum bytes, 8 + 2*columns*(rows/8) bytes in all; for
\* columns=1, rows=8, logical address 2 and an all-zero buffer the bytes are
\* 02 31 32 30 31 30 30 03 44 39.
C3_FrameOrder ==
    (op = "send" /\ ret = 0) =>
        /\ Len(written) = 8 + 2 * columns * (rows \div 8)
        /\ calls = Len(written)
        /\ SubSeq(written, 1, 5) = header
        /\ SubSeq(written, 6, 5 + PayloadLen) = ExpectedPayload
        /\ written[5 + PayloadLen + 1] = 3
        /\ SubSeq(written, 5 + PayloadLen + 1, Len(written)) = footer
        /\ (address = 18 /\ columns = 1 /\ rows = 8 /\ buf = <<0>>)
              => written = <<2, 49, 50, 48, 49, 48, 48, 3, 68, 57>>

\* the worked scenario was sent
C3_Witness ==
    /\ op = "send" /\ ret = 0
    /\ address = 18 /\ columns = 1 /\ rows = 8 /\ buf = <<0>>

\* C4: the two checksum bytes written after ETX are the uppercase hex digits
\* of finalChecksum = ((sum XOR 0xFF) + 1) & 0xFF with sum = (header bytes +
\* payload bytes + 1) & 0xFF, so finalChecksum lies in 0..255.
C4_ChecksumBytes ==
    (op = "send" /\ ret = 0) =>
        LET sum   == (SumBytes(header) + SumBytes(ExpectedPayload) + 1) % 256
            final == ((255 - sum) + 1) % 256
            n     == Len(written)
        IN  /\ written[n - 1] = HexDigits[(final \div 16) + 1]
            /\ written[n]     = HexDigits[(final % 16) + 1]

\* C5: every byte send() writes, other than STX and ETX, is one of the ASCII
\* characters '0'..'9', 'A'..'F'.
C5_HexOnly ==
    op = "send" =>
        \A j \in 1..Len(written) :
            \/ j = 1
            \/ j = 5 + PayloadLen + 1
            \/ IsHexDigit(written[j])

\* C6 as stated: a send() leaves the transport with a complete frame or with
\* no byte at all.
C6_AllOrNothing ==
    op = "send" => (written = <<>> \/ Len(written) = 8 + PayloadLen)

\* C6 amended: the bytes a send() delivers are a prefix of the frame: the whole
\* frame when it returns 0, nothing when no transport is attached, and exactly
\* the bytes of the writes made before the raising one when a write raises.
C6_FramePrefix ==
    op = "send" =>
        /\ IsPrefix(written, ExpectedFrame)
        /\ ret = 0 => written = ExpectedFrame
        /\ ser = "none" => written = <<>>
        /\ (ret = -1 /\ ser = "open") =>
              (args[1] >= 1 /\ Len(written) = args[1] - 1)

\* a send() that failed after delivering part of the payload
C6_Witness ==
    /\ op = "send" /\ ret = -1
    /\ Len(written) > 5 /\ Len(written) < 5 + PayloadLen

\* C7: a send() in which a write raises returns -1 with the raising write as
\* its last write call (no retry, no later write), and changes neither the buffer nor the orientation flag
\* nor the speed factor; a send() that succeeds right after it emits the whole
\* frame of that buffer.
C7_FailedSend ==
    [][ /\ (op' = "send" /\ ret' = -1)
            => /\ buf' = buf
               /\ flip_orientation' = flip_orientation
               /\ speed_factor' = speed_factor
               /\ ser = "open" => calls' = args'[1]
        /\ (op = "send" /\ ret = -1 /\ op' = "send" /\ ret' = 0)
            => (written' = ExpectedFrame /\ buf' = buf)
      ]_vars

\* a send() failed inside the payload of a buffer with lit dots, at slow speed
C7_Witness ==
    /\ op = "send" /\ ret = -1 /\ ser = "open"
    /\ Len(written) > 5
    /\ speed_factor = 5
    /\ \E c \in 1..Len(buf) : buf[c] # 0

\* C8: without a transport send() returns -1 and writes nothing, while the
\* display is fully constructed and its dot operations work.
C8_NoTransport ==
    ser = "none" =>
        /\ Len(buf) = columns
        /\ Len(header) = 5
        /\ op = "send" => (ret = -1 /\ written = <<>> /\ calls = 0)
        /\ (op = "set_dot" /\ InRange(args[1], args[2])) =>
              (ret = TRUE /\ get_dot_on(buf, args[1], args[2]) = args[3])

\* send() was refused on a display without transport whose buffer has lit dots
C8_Witness ==
    /\ ser = "none" /\ op = "send" /\ ret = -1
    /\ \E c \in 1..Len(buf) : buf[c] # 0

\* C9: the payload of a frame is, column by column and least significant byte
\* first, the two uppercase hex characters (high nibble, low nibble) of each
\* byte of the column word; it has 2*columns*(rows/8) bytes.
C9_Payload ==
    (op = "send" /\ ret = 0) =>
        /\ Len(written) - 8 = 2 * columns * (rows \div 8)
        /\ SubSeq(written, 6, Len(written) - 3) = ExpectedPayload

\* a frame of a two-byte column word whose low and high bytes differ
C9_Witness ==
    /\ op = "send" /\ ret = 0 /\ rows > 8
    /\ \E c \in 1..Len(buf) : buf[c] % 256 # (buf[c] \div 256) % 256

\* C10: the header is STX, the two hex digits of address + 16 and the two hex
\* digits of (rows * columns / 8) & 0xFF, rows being the row count rounded up
\* to a multiple of 8; no operation changes it, and the bytes a send() writes
\* begin with it.
C10_Header ==
    /\ [] /\ \E d \in Displays \cup WideDisplays :
               LET r    == ((d[3] + 7) \div 8) * 8
                   size == ((r * d[2]) \div 8) % 256
                   wire == d[1] + 16
               IN  /\ address = wire /\ columns = d[2] /\ rows = r
                   /\ header = <<2, HexDigits[(wire \div 16) + 1],
                                    HexDigits[(wire % 16) + 1],
                                    HexDigits[(size \div 16) + 1],
                                    HexDigits[(size % 16) + 1]>>
          /\ op = "send" => IsPrefix(written, header) \/ IsPrefix(header, written)
          /\ (op = "send" /\ ret = 0) => Len(written) > 5
    /\ [][header' = header]_vars

\* a frame was sent by a display whose data size does not fit one byte and
\* whose requested row count was rounded up
C10_Witness ==
    /\ op = "send" /\ ret = 0
    /\ (rows * columns) \div 8 > 255
    /\ \E d \in WideDisplays : d[2] = columns /\ d[3] < rows
    /\ \E c \in 1..Len(buf) : buf[c] # 0

\* the dot (x, y) belongs to a glyph of text drawn with origin (col, row):
\* character i (counted from 1) occupies the columns col + 6(i-1) .. + 4
GlyphDot(text, col, row, x, y) ==
    \E i \in 1..Len(text) :
        /\ text[i] \in DOMAIN font
        /\ LET fc == x - col - 6 * (i - 1)
               fr == y - row
           IN  /\ fc >= 0 /\ fc <= 4 /\ fr >= 0 /\ fr <= 6
               /\ (font[text[i]][fc + 1] \div (2 ^ fr)) % 2 = 1

\* C11: after write_text(text, col, row), from any buffer and under either
\* orientation, get_dot(x, y) is True exactly for the in-range (x, y) that a
\* glyph of a supported character of text covers with a set font bit; all
\* other dots are off and nothing wraps.  write_text("A", 0, 0) on an 8-row
\* display in normal orientation leaves 0x7C, 0x12, 0x11, 0x12, 0x7C in
\* columns 0..4 and zero elsewhere.
C11_WriteText ==
    /\ [] (op = "write_text" =>
            /\ \A x \in -1..columns, y \in -1..rows :
                  get_dot_on(buf, x, y)
                    = (InRange(x, y) /\ GlyphDot(args[1], args[2], args[3], x, y))
            /\ (args = << <<"A">>, 0, 0 >> /\ rows = 8 /\ ~flip_orientation) =>
                  \A c \in 1..columns :
                      buf[c] = IF c <= 5 THEN <<124, 18, 17, 18, 124>>[c] ELSE 0)
    /\ [][ (op = "write_text" /\ op' = "get_dot") =>
              ret' = (/\ InRange(args'[1], args'[2])
                      /\ GlyphDot(args[1], args[2], args[3], args'[1], args'[2]))
         ]_vars

\* "A" was written at the origin of an 8-row display in normal orientation
C11_Witness ==
    /\ op = "write_text" /\ args = << <<"A">>, 0, 0 >>
    /\ rows = 8 /\ ~flip_orientation
    /\ buf[1] = 124 /\ buf[5] = 124

\* text with every character outside the font table replaced by a space
Blanked(text) ==
    [i \in 1..Len(text) |-> IF text[i] \in DOMAIN font THEN text[i] ELSE " "]

\* C12: write_text(s, col, row) leaves the buffer that write_text(s', col, row)
\* leaves, s' being s with every unsupported character replaced by a space:
\* an unsupported character draws nothing and advances 6 columns.
C12_UnsupportedAsBlank ==
    [][ op' = "write_text" =>
            buf' = write_text_on(buf, Blanked(args'[1]), args'[2], args'[3])
      ]_vars

\* a text that begins with an unsupported character was written and the glyph
\* after it is visible
C12_Witness ==
    /\ op = "write_text" /\ args[1][1] \notin DOMAIN font
    /\ Len(args[1]) > 1
    /\ \E c \in 1..Len(buf) : buf[c] # 0

\* C13: after fill_all() every buffer word is (1 << rows) - 1 and get_dot is
\* True at every in-range coordinate; after erase_all() every word is 0 and
\* get_dot is False everywhere; from any buffer and in both orientations.
C13_FillErase ==
    /\ [] /\ op = "fill_all" =>
               /\ \A c \in 1..Len(buf) : buf[c] = 2 ^ rows - 1
               /\ \A col \in 0..(columns - 1), row \in 0..(rows - 1) :
                     get_dot_on(buf, col, row)
          /\ op = "erase_all" =>
               /\ \A c \in 1..Len(buf) : buf[c] = 0
               /\ \A col \in -1..columns, row \in -1..rows :
                     ~get_dot_on(buf, col, row)
    /\ [][ /\ (op = "fill_all" /\ op' = "get_dot" /\ InRange(args'[1], args'[2]))
               => ret' = TRUE
           /\ (op = "erase_all" /\ op' = "get_dot") => ret' = FALSE
         ]_vars

\* a display of more than 8 rows was filled while flipped
C13_Witness ==
    /\ op = "fill_all" /\ flip_orientation /\ rows > 8
    /\ buf[1] = 2 ^ rows - 1

\* C14: every public operation completes and reports through its return
\* value: the constructor yields an object, the dot operations a boolean,
\* send 0 or -1, the others None; none raises.
C14_NoException ==
    /\ op = "init" => ret = "None"
    /\ op \in {"set_dot", "invert_dot", "get_dot"} => ret \in BOOLEAN
    /\ op = "send" => ret \in {0, -1}
    /\ op \in {"erase_all", "fill_all", "toggle_orientation", "set_speed_factor",
               "write_text"} => ret = "None"

\* C15: rows is the smallest multiple of 8 that is at least the requested row
\* count (5 is stored as 8), and no operation changes it.
C15_RowsRounded ==
    /\ [] /\ rows % 8 = 0
          /\ \E d \in Displays \cup WideDisplays :
                /\ address = d[1] + 16 /\ columns = d[2]
                /\ d[3] >= 1
                /\ rows >= d[3] /\ rows - 8 < d[3]
    /\ [][rows' = rows]_vars

\* the display requested with 5 rows has been filled: 8 bits per column
C15_Witness ==
    /\ op = "fill_all"
    /\ \E d \in WideDisplays : columns = d[2] /\ d[3] = 5
    /\ rows = 8 /\ buf[1] = 255

\* C16 as stated: the wire address is the logical address plus 16 and lies in
\* 17..32.
C16_WireRange ==
    /\ \E d \in CtorDisplays : address = d[1] + 16 /\ columns = d[2]
    /\ address \in 17..32

\* C16 amended: the wire address is the logical address plus 16, whatever the
\* caller passed; it lies in 17..32 exactly when the logical address lies in
\* 1..16; no operation changes it.
C16_WireOffset ==
    /\ [] \E d \in CtorDisplays :
             /\ address = d[1] + 16 /\ columns = d[2]
             /\ address \in 17..32 <=> d[1] \in 1..16
    /\ [][address' = address]_vars

\* the scanner's display for address 17 has sent a frame with wire address 33
C16_Witness ==
    /\ op = "send" /\ ret = 0
    /\ columns = DISPLAY_COLUMNS /\ address = 33
    /\ SubSeq(written, 2, 3) = <<50, 49>>

\* C17: the buffer has columns words, all zero right after construction, and
\* after any sequence of operations it still has columns words and is the
\* list the constructor allocated.
C17_BufferLength ==
    /\ columns >= 1
    /\ Len(buf) = columns
    /\ buf_id = 1
    /\ op = "init" => \A i \in 1..Len(buf) : buf[i] = 0

\* the buffer of a display of several columns was erased after a frame of
\* other content had been sent
C17_Witness ==
    /\ op = "erase_all" /\ columns > 1
    /\ footer # <<3, 0, 0>> /\ footer # <<3, 68, 57>>

\* C18: toggle_orientation inverts the orientation flag and changes nothing
\* else: buffer, header, footer, speed factor, dimensions, address, transport.
C18_ToggleFrame ==
    [][ op' = "toggle_orientation" =>
            /\ flip_orientation' = ~flip_orientation
            /\ buf' = buf /\ buf_id' = buf_id
            /\ header' = header /\ footer' = footer
            /\ speed_factor' = speed_factor
            /\ columns' = columns /\ rows' = rows
            /\ data_size' = data_size /\ byte_per_column' = byte_per_column
            /\ address' = address /\ ser' = ser
      ]_vars

\* the orientation of a display with lit dots and a slow speed was toggled
C18_Witness ==
    /\ op = "toggle_orientation" /\ flip_orientation
    /\ speed_factor = 5 /\ columns > 1
    /\ \E c \in 1..Len(buf) : buf[c] # buf[1]

\* C19: two consecutive toggle_orientation calls restore the addressing: the
\* flag is the one the first call found, the buffer is untouched, and at every
\* (col, row) get_dot reads, and set_dot and invert_dot change, the bit that
\* the orientation before the two calls assigns to it.
C19_ToggleTwice ==
    [][ /\ op' = "toggle_orientation" => buf' = buf
        /\ (op = "toggle_orientation" /\ op' = "toggle_orientation") =>
              /\ flip_orientation' = args[1]
              /\ \A col \in 0..(columns - 1), row \in 0..(rows - 1) :
                    LET c   == IF args[1] THEN columns - 1 - col ELSE col
                        r   == IF args[1] THEN rows - 1 - row ELSE row
                        lit == (buf[c + 1] \div (2 ^ r)) % 2 = 1
                    IN  /\ get_dot_on(buf, col, row)' = lit
                        /\ set_dot_on(buf, col, row, TRUE).buf'
                             = [buf EXCEPT ![c + 1] = IF lit THEN @ ELSE @ + 2 ^ r]
                        /\ invert_dot_on(buf, col, row).buf'
                             = [buf EXCEPT ![c + 1] = IF lit THEN @ - 2 ^ r
                                                             ELSE @ + 2 ^ r]
      ]_vars

\* a display whose columns hold different words is back in normal orientation
\* after a toggle
C19_Witness ==
    /\ op = "toggle_orientation" /\ args[1] = TRUE /\ ~flip_orientation
    /\ rows > 8
    /\ \E c \in 1..Len(buf) : buf[c] # buf[1]

\* C20: after set_speed_factor(f), adjust_delay(d) returns d*f when f > 0 and
\* d*0.05 when f <= 0, and get_speed_factor() returns f or 0.05; factor 2.0
\* gives adjust_delay(1.0) = 2.0, factor 0 gives 0.05; adjust_delay changes
\* no state.  (Factors and delays in hundredths, products in ten-thousandths.)
C20_SpeedClamp ==
    [][ /\ (op = "set_speed_factor" /\ op' = "adjust_delay") =>
              /\ ret' = args'[1] * (IF args[1] > 0 THEN args[1] ELSE 5)
              /\ (args[1] = 200 /\ args'[1] = 100) => ret' = 20000
              /\ (args[1] = 0 /\ args'[1] = 100) => ret' = 500
        /\ (op = "set_speed_factor" /\ op' = "get_speed_factor") =>
              ret' = (IF args[1] > 0 THEN args[1] ELSE 5)
        /\ op' = "adjust_delay" =>
              /\ speed_factor' = speed_factor /\ flip_orientation' = flip_orientation
              /\ buf' = buf /\ buf_id' = buf_id
              /\ header' = header /\ footer' = footer
              /\ columns' = columns /\ rows' = rows /\ address' = address
              /\ data_size' = data_size /\ byte_per_column' = byte_per_column
              /\ ser' = ser
      ]_vars

\* adjust_delay(1.0) returned 0.05 after a non-positive factor was clamped
C20_Witness ==
    /\ op = "adjust_delay" /\ args[1] = 100
    /\ speed_factor = 5 /\ ret = 500

\* C21: the speed factor is strictly positive in every reachable state, right
\* after construction with any speed_factor argument and after any
\* set_speed_factor calls, so adjust_delay(d) > 0 for d > 0.
C21_SpeedPositive ==
    /\ speed_factor > 0
    /\ (op = "adjust_delay" /\ args[1] > 0) => ret > 0

\* C22: two send() calls with no call in between that meet the same transport
\* behaviour write the same bytes and return the same value, and two that both
\* succeed leave the same footer, whatever was sent before them.
C22_SendDeterministic ==
    [][ (op = "send" /\ op' = "send" /\ args' = args) =>
            /\ written' = written
            /\ ret' = ret
            /\ ret' = 0 => footer' = footer
      ]_vars

\* a frame of a buffer with lit dots went out after the footer had held the
\* checksum of another frame
C22_Witness ==
    /\ op = "send" /\ ret = 0 /\ ser = "open"
    /\ \E c \in 1..Len(buf) : buf[c] # 0
    /\ footer # <<3, 0, 0>>
    /\ SubSeq(written, Len(written) - 2, Len(written)) = footer

\* C23: byte_to_ascii maps b in 0..255 to the uppercase hex digits of b >> 4
\* and b & 15 ('0'+n for n <= 9, 'A'+(n-10) otherwise); reading the pair as a
\* two-digit hexadecimal number gives b back, and no other byte has that pair.
C23_ByteToAscii ==
    op = "byte_to_ascii" =>
        LET b  == args[1]
            hi == b \div 16
            lo == b % 16
        IN  /\ ret[1] = (IF hi <= 9 THEN 48 + hi ELSE 65 + (hi - 10))
            /\ ret[2] = (IF lo <= 9 THEN 48 + lo ELSE 65 + (lo - 10))
            /\ 16 * Unhex(ret[1]) + Unhex(ret[2]) = b
            /\ \A other \in Bytes : byte_to_ascii(other) = ret => other = b

\* 0xAB was encoded as 'A','B'
C23_Witness ==
    /\ op = "byte_to_ascii" /\ args[1] = 171
    /\ ret = <<65, 66>>

\* C28: the checksum value v that calculate_checksum computes for a frame, and
\* whose two characters end the frame, makes header bytes + payload bytes +
\* 1 + v congruent to 0 modulo 256.
C28_TwosComplement ==
    (op = "send" /\ ret = 0) =>
        LET n   == Len(written)
            crc == SumRange(written, 6, n - 3)
            v   == checksum_value(header, crc)
        IN  /\ (SumRange(written, 1, 5) + crc + 1 + v) % 256 = 0
            /\ <<written[n - 1], written[n]>> = byte_to_ascii(v)
            /\ 16 * Unhex(written[n - 1]) + Unhex(written[n]) = v

\* a frame went out whose header and payload bytes sum to 255 modulo 256, so
\* that the checksum value is 256
C28_Witness ==
    /\ op = "send" /\ ret = 0
    /\ (SumRange(written, 1, Len(written) - 3) + 1) % 256 = 0

\* C25: toggle_orientation rotates the picture by 180 degrees: after a toggle,
\* get_dot(col, row) at every in-range coordinate equals what
\* get_dot(columns - 1 - col, rows - 1 - row) was before it, rows being the
\* rounded-up row count.
C25_ToggleRotates ==
    [][ (op' = "toggle_orientation" /\ flip_orientation' # flip_orientation) =>
            \A c \in 0..(columns - 1), r \in 0..(rows - 1) :
                get_dot_on(buf, c, r)' =
                    get_dot_on(buf, columns - 1 - c, rows - 1 - r)
      ]_vars

\* a display whose row count was rounded up was toggled while showing a
\* picture that its rotation changes
C25_Witness ==
    /\ op = "toggle_orientation"
    /\ rows > 8
    /\ \E c \in 0..(columns - 1), r \in 0..(rows - 1) :
           get_dot_on(buf, c, r) # get_dot_on(buf, columns - 1 - c, rows - 1 - r)

\* C26: a set_dot or invert_dot at an in-range coordinate returns True and
\* changes the addressed dot only: get_dot at every other coordinate, the
\* orientation flag and the speed factor are as before, one buffer word at
\* most differs; after set_dot the dot has the requested state, after
\* invert_dot the negation of its state, and a second invert_dot at the same
\* coordinate gives the buffer back as it was.
C26_DotFrame ==
    [][ (op' \in {"set_dot", "invert_dot"} /\ InRange(args'[1], args'[2])) =>
            /\ ret' = TRUE
            /\ flip_orientation' = flip_orientation
            /\ speed_factor' = speed_factor
            /\ \A c \in 0..(columns - 1), r \in 0..(rows - 1) :
                   <<c, r>> # <<args'[1], args'[2]>> =>
                       get_dot_on(buf, c, r)' = get_dot_on(buf, c, r)
            /\ \A i \in 1..Len(buf) :
                   i # MapCol(args'[1]) + 1 => buf'[i] = buf[i]
            /\ op' = "set_dot" =>
                   get_dot_on(buf', args'[1], args'[2]) = args'[3]
            /\ op' = "invert_dot" =>
                   /\ get_dot_on(buf', args'[1], args'[2]) =
                          ~get_dot_on(buf, args'[1], args'[2])
                   /\ (invert_dot_on(buf, args[1], args[2]).buf)' = buf
      ]_vars

\* a lit dot of a flipped display's far corner was inverted while another dot
\* stayed lit
C26_Witness ==
    /\ op = "invert_dot" /\ ret = TRUE
    /\ flip_orientation
    /\ args = <<columns - 1, rows - 1>>
    /\ ~get_dot_on(buf, columns - 1, rows - 1)
    /\ \E c \in 0..(columns - 1), r \in 0..(rows - 1) : get_dot_on(buf, c, r)

\* C27: after any sequence of set_dot, invert_dot, fill_all, erase_all,
\* write_text and toggle_orientation calls, with coordinates in or out of
\* range, every buffer word w satisfies 0 <= w < 2^rows.
C27_WordRange ==
    \A i \in 1..Len(buf) : buf[i] >= 0 /\ buf[i] < 2 ^ rows

\* a set_dot one row past the last row was refused on a buffer with all dots
\* lit
C27_Witness ==
    /\ op = "set_dot" /\ ret = FALSE
    /\ args[1] = columns - 1 /\ args[2] = rows /\ args[3] = TRUE
    /\ ~flip_orientation
    /\ \A i \in 1..Len(buf) : buf[i] = 2 ^ rows - 1

C29_AttributesMirror ==
    visual.wrapped =>
        /\ visual.columns = columns
        /\ visual.rows = rows
        /\ visual.flip_orientation = flip_orientation
        /\ visual.speed_factor = speed_factor

\* C30: when another thread changes the buffer between the steps of a single
\* send(), the frame written is still consistent with itself: the footer
\* checksum written is the checksum of the header and of the payload bytes
\* actually written (crc holds the sum of the payload bytes written and of
\* the characters computed but not yet written), and the characters of every
\* column come from the one word read for that column.
C30_InterleavedSend ==
    LET out  == sender.out
        n    == Len(out)
        done == sender.pc = "done"
        last == IF done THEN n - 3 ELSE n
    IN  /\ sender.pc # "idle" =>
               /\ SubSeq(out, 1, 5) = header
               /\ sender.crc = SumRange(out, 6, last)
                      + (IF sender.pc = "write_b1" THEN sender.b1 + sender.b2
                         ELSE IF sender.pc = "write_b2" THEN sender.b2
                         ELSE 0)
               /\ \A j \in 1..((last - 5) \div 2) :
                      LET c == (j - 1) \div byte_per_column
                          i == (j - 1) % byte_per_column
                      IN  <<out[5 + 2 * j - 1], out[5 + 2 * j]>> =
                              byte_to_ascii(Mask8(Shr(sender.reads[c + 1], 8 * i)))
        /\ done =>
               /\ Len(sender.reads) = columns
               /\ n = 8 + 2 * columns * byte_per_column
               /\ out[n - 2] = 3
               /\ <<out[n - 1], out[n]>> =
                      calculate_checksum(header, SumRange(out, 6, n - 3))

\* a send completed whose frame holds a column read before and a column read
\* after the other thread filled the buffer
C30_Witness ==
    /\ sender.pc = "done"
    /\ \E c1, c2 \in 1..Len(sender.reads) :
           sender.reads[c1] = 0 /\ sender.reads[c2] = 2 ^ rows - 1

====
